---- MODULE Spec2Model ----
(***************************************************************************)
(* Model of the typed binary serializer of the Aethelwerka foundation      *)
(* library (Serializer<FileStreamImplementation>, the DummyStream backend) *)
(* and of the ZIP local-file record assembly built on it.                  *)
(*                                                                         *)
(* The file backend owns one std::fstream.  The stream is modelled by what *)
(* the C++ standard library specifies for it: the open flag of its filebuf,*)
(* the iostate bits (eofbit, failbit, badbit) and the joint file position  *)
(* of the filebuf; the resource is the byte sequence of the file.          *)
(***************************************************************************)
EXTENDS Integers, Sequences, FiniteSets, TLC

\* ------------------------------------------------------------------ bounds
\* Bytes of the small files are drawn from 0..MaxByte.
MaxByte == 1
\* Longest file of the stream specification, and the furthest seek target.
MaxFile == 3

\* --------------------------------------------------------------- constants
\* StatusCode enumerators used by the serializer.
success == 0
failed_precondition == 9
aborted == 10
out_of_range == 11

\* std::endian::native of the build (MSVC on x86/x64): little endian.
Native == "little"
Endian == {"little", "big"}

\* sizeof(T) of the arithmetic types the typed operations are used with
\* (char / std::uint8_t and std::uint16_t).
Sizes == {1, 2}

Byte == 0..MaxByte

\* The FileStream under test (m_file, over the file disk), whether it is
\* between a successful initialize and its quiesce (live), whether the process
\* has exited (terminated) and what the last call returned (last).
VARIABLES m_file, disk, live, terminated, last

\* zip_extractor_main: its position (pc), the vector filelist() returned
\* (files) and the element the range-for is at (index), the output FileStream
\* fs over the file out, the lifecycle calls it made on its two streams (log)
\* and its return value (ret).
VARIABLES pc, files, index, fs, out, log, ret

mainVars == <<pc, files, index, fs, out, log, ret>>

\* A Mallocator: the vector of Blocks it tracks (blocks) and its
\* AllocatorStatistics (stats); the addresses the C heap has handed out and
\* not been given back (heap); the Block variables of the caller (held); and
\* the last call made on the allocator (mem).
VARIABLES blocks, stats, heap, held, mem

memVars == <<blocks, stats, heap, held, mem>>

vars ==
    <<m_file, disk, live, terminated, last, pc, files, index, fs, out, log, ret,
      blocks, stats, heap, held, mem>>

\* ------------------------------------------------------------ byte helpers
Min(a, b) == IF a < b THEN a ELSE b

Max(a, b) == IF a > b THEN a ELSE b

Zeros(n) == [i \in 1..n |-> 0]

\* std::reverse(begin, end) over count bytes.
reverse(buffer) == [i \in 1..Len(buffer) |-> buffer[Len(buffer) + 1 - i]]

\* internal::on_endian_swap<T>: reverses the sizeof(T) bytes of one element.
on_endian_swap(data) == reverse(data)

\* endian_swap that reverses whatever the requested order is.
endian_swap_unconditional(data_endian, data) == on_endian_swap(data)

\* endian_swap(data_endian, data) on one element held as its sizeof(T) bytes.
endian_swap(data_endian, data) ==
    IF Len(data) > 1
    THEN IF Native = data_endian THEN data ELSE on_endian_swap(data)
    ELSE data

RECURSIVE FromBytes(_)
\* The integer an object representation denotes on the native (little-endian)
\* build: the first byte in memory is the least significant.
FromBytes(bs) ==
    IF bs = <<>> THEN 0 ELSE Head(bs) + 256 * FromBytes(Tail(bs))

RECURSIVE ToBytes(_, _)
\* The object representation of the n-byte unsigned integer v.
ToBytes(v, n) ==
    IF n = 0 THEN <<>> ELSE <<v % 256>> \o ToBytes(v \div 256, n - 1)

\* The values of an n-byte type whose bytes all lie in Byte.
Values(n) == {FromBytes(bs) : bs \in [1..n -> Byte]}

\* ---------------------------------------------------------- std::fstream
\* A world is the stream object f = [open, st, pos] and the file
\* d = [exists, data, denied]; denied marks a path the system refuses to open
\* (a directory, a missing parent, no permission).
Fail(f) == f.st \cap {"fail", "bad"} # {}

Eof(f) == "eof" \in f.st

Good(f) == f.st = {}

SetState(w, bits) == [w EXCEPT !.f.st = @ \cup bits]

\* basic_ios::clear(): goodbit.
Clear(w) == [w EXCEPT !.f.st = {}]

\* The sentry of an unformatted operation: the operation proceeds only on a
\* good() stream; otherwise failbit is set.
Sentry(w) == IF Good(w.f) THEN w ELSE SetState(w, {"fail"})

\* basic_fstream::open(path, mode): fails with failbit when the filebuf is
\* already open or the file cannot be opened (in|out needs an existing file,
\* in|out|trunc creates or empties it); clear() on success.
Open(w, trunc) ==
    IF w.f.open \/ w.d.denied THEN SetState(w, {"fail"})
    ELSE IF trunc
         THEN [f |-> [open |-> TRUE, st |-> {}, pos |-> 0],
               d |-> [w.d EXCEPT !.exists = TRUE, !.data = <<>>]]
         ELSE IF w.d.exists
              THEN [w EXCEPT !.f = [open |-> TRUE, st |-> {}, pos |-> 0]]
              ELSE SetState(w, {"fail"})

\* basic_fstream::close(): failbit when the filebuf was not open.
Close(w) ==
    IF w.f.open
    THEN [w EXCEPT !.f.open = FALSE, !.f.pos = 0]
    ELSE SetState(w, {"fail"})

\* basic_ostream::tellp(): pos_type(-1) when fail() or the filebuf is closed.
Tellp(w) ==
    LET s == Sentry(w)
    IN  [w |-> s, pos |-> IF Fail(s.f) \/ ~s.f.open THEN -1 ELSE s.f.pos]

\* basic_ostream::seekp(pos): nothing when fail(); failbit when pubseekpos
\* fails (closed filebuf, or a negative offset).
Seekp(w, p) ==
    LET s == Sentry(w)
    IN  IF Fail(s.f) THEN s
        ELSE IF s.f.open /\ p >= 0 THEN [s EXCEPT !.f.pos = p]
        ELSE SetState(s, {"fail"})

\* Bytes between the file position and the end of the file.
Avail(w) == IF w.f.open THEN Max(0, Len(w.d.data) - w.f.pos) ELSE 0

\* basic_istream::read(buffer, count): copies min(count, available) bytes into
\* the front of buffer and advances the position by as many; when fewer than
\* count were available sets eofbit|failbit.  On a stream that is not good()
\* the sentry sets failbit and nothing is read.
Read(w, buffer, count) ==
    LET s == Sentry(w)
    IN  IF ~Good(w.f) THEN [w |-> s, buffer |-> buffer, gcount |-> 0]
        ELSE LET k == Min(count, Avail(w))
                 got == SubSeq(w.d.data, w.f.pos + 1, w.f.pos + k)
                 w1 == [w EXCEPT !.f.pos = @ + k]
             IN  [w |-> IF k < count THEN SetState(w1, {"eof", "fail"}) ELSE w1,
                  buffer |-> got \o SubSeq(buffer, k + 1, Len(buffer)),
                  gcount |-> k]

\* basic_istream::ignore(numeric_limits<streamsize>::max()): discards up to
\* the end of the file and sets eofbit there.
Ignore(w) ==
    LET s == Sentry(w)
    IN  IF ~Good(w.f) THEN [w |-> s, gcount |-> 0]
        ELSE [w |-> SetState([w EXCEPT !.f.pos = @ + Avail(w)], {"eof"}),
              gcount |-> Avail(w)]

\* basic_ostream::write(buffer, count): on a good() stream stores the bytes at
\* the file position (a gap past the end of the file reads back as zeros) and
\* advances it; badbit when the filebuf takes fewer than count bytes (closed).
\* On a stream that is not good() nothing is written and the stream fails.
Write(w, buffer) ==
    LET s == Sentry(w)
        n == Len(buffer)
        p == w.f.pos
        old == w.d.data
        padded == old \o Zeros(Max(0, p - Len(old)))
    IN  IF ~Good(w.f) THEN s
        ELSE IF ~w.f.open THEN (IF n = 0 THEN w ELSE SetState(w, {"bad"}))
        ELSE [w EXCEPT !.f.pos = p + n,
                       !.d.data = IF n = 0 THEN old
                                  ELSE SubSeq(padded, 1, p) \o buffer
                                       \o SubSeq(padded, p + n + 1, Len(padded))]

\* ------------------------------------------ FileStreamImplementation
OnStatus(f) ==
    IF Eof(f) THEN out_of_range
    ELSE IF Fail(f) THEN aborted
    ELSE success

on_initialize(w, overwrite) ==
    LET w1 == Open(w, overwrite)
    IN  [w |-> w1, ret |-> w1.f.open]

on_quiesce(w) == [w |-> Close(w), ret |-> TRUE]

on_validate(w) == ~Fail(w.f)

\* on_size that counts from the cursor instead of from the start.
on_size_from_cursor(w) ==
    LET old_pos == Tellp(w)
        ig == Ignore(old_pos.w)
        w2 == Clear(ig.w)
    IN  [w |-> Seekp(w2, old_pos.pos), ret |-> ig.gcount]

\* on_size that does not seek back to the saved position after clear().
on_size_no_restore(w) ==
    LET old_pos == Tellp(w)
        w1 == Seekp(old_pos.w, 0)
        ig == Ignore(w1)
    IN  [w |-> Clear(ig.w), ret |-> ig.gcount]

on_size(w) ==
    LET old_pos == Tellp(w)
        w1 == Seekp(old_pos.w, 0)
        ig == Ignore(w1)
        w2 == Clear(ig.w)
    IN  [w |-> Seekp(w2, old_pos.pos), ret |-> ig.gcount]

on_position(w) ==
    LET t == Tellp(w)
    IN  [w |-> t.w, ret |-> t.pos]

\* position is a size_t; -1 stands for a value past the range of
\* std::streamoff (static_cast<size_t>(-1)), which seekp receives as -1.
on_seek(w, position) == [w |-> Seekp(w, position), ret |-> TRUE]

\* on_read reporting the end of the file as soon as the cursor reaches it.
on_read_eof_at_end(w, buffer, count) ==
    IF ~(count > 0)
    THEN [w |-> w, buffer |-> buffer, status |-> failed_precondition]
    ELSE LET r == Read(w, buffer, count)
         IN  [w |-> r.w, buffer |-> r.buffer,
              status |-> IF r.w.f.open /\ r.w.f.pos >= Len(r.w.d.data)
                         THEN out_of_range ELSE OnStatus(r.w.f)]

\* on_read testing fail() before eof().
on_read_fail_first(w, buffer, count) ==
    IF ~(count > 0)
    THEN [w |-> w, buffer |-> buffer, status |-> failed_precondition]
    ELSE LET r == Read(w, buffer, count)
         IN  [w |-> r.w, buffer |-> r.buffer,
              status |-> IF Fail(r.w.f) THEN aborted
                         ELSE IF Eof(r.w.f) THEN out_of_range ELSE success]

on_read(w, buffer, count) ==
    IF ~(count > 0)
    THEN [w |-> w, buffer |-> buffer, status |-> failed_precondition]
    ELSE LET r == Read(w, buffer, count)
         IN  [w |-> r.w, buffer |-> r.buffer, status |-> OnStatus(r.w.f)]

\* on_peek that does not restore the cursor.
on_peek_no_restore(w, buffer, count) ==
    IF ~(count > 0)
    THEN [w |-> w, buffer |-> buffer, status |-> failed_precondition]
    ELSE LET r == Read(w, buffer, count)
             w1 == Clear(r.w)
         IN  [w |-> w1, buffer |-> r.buffer, status |-> OnStatus(w1.f)]

on_peek(w, buffer, count) ==
    IF ~(count > 0)
    THEN [w |-> w, buffer |-> buffer, status |-> failed_precondition]
    ELSE LET old_pos == Tellp(w)
             r == Read(old_pos.w, buffer, count)
             w1 == Seekp(Clear(r.w), old_pos.pos)
         IN  [w |-> w1, buffer |-> r.buffer, status |-> OnStatus(w1.f)]

\* on_write without the count > 0 precondition.
on_write_unchecked(w, buffer, count) ==
    LET w1 == Write(w, SubSeq(buffer, 1, count))
    IN  [w |-> w1, status |-> OnStatus(w1.f)]

on_write(w, buffer, count) ==
    IF ~(count > 0)
    THEN [w |-> w, status |-> failed_precondition]
    ELSE LET w1 == Write(w, SubSeq(buffer, 1, count))
         IN  [w |-> w1, status |-> OnStatus(w1.f)]

\* DummyStreamImplementation::on_read: no resource, no state.
dummy_on_read(count) == success

\* ------------------------------------------------------------ Serializer
\* One backend call made by a typed operation.
Call(fn, count, status) == [fn |-> fn, count |-> count, status |-> status]

\* expect(false, ...): internal::assert -> on_assert -> std::exit(EXIT_FAILURE).
on_assert(w) ==
    [w |-> w, exited |-> TRUE, status |-> -1, value |-> -1, calls |-> <<>>]

Returned(w, status, value, calls) ==
    [w |-> w, exited |-> FALSE, status |-> status, value |-> value, calls |-> calls]

validate(w) == on_validate(w)

\* read<T>(data_endian) for an arithmetic T of sizeof(T) = size.
read(w, size, data_endian) ==
    IF ~validate(w) THEN on_assert(w)
    ELSE LET r == on_read(w, Zeros(size), size)
             calls == <<Call("on_read", size, r.status)>>
         IN  IF r.status # success
             THEN Returned(r.w, r.status, -1, calls)
             ELSE Returned(r.w, success,
                           FromBytes(endian_swap(data_endian, r.buffer)), calls)

RECURSIVE read_text_loop(_, _, _)
\* The do-while of read<StringType>(data_endian): one on_read of
\* sizeof(char_type) = 1 byte per turn, `result += character`, and only then
\* the test `character != '\\0'`.
read_text_loop(w, result, calls) ==
    LET r == on_read(w, <<0>>, 1)
        made == Append(calls, Call("on_read", 1, r.status))
    IN  IF r.status # success
        THEN Returned(r.w, r.status, <<>>, made)
        ELSE IF r.buffer[1] # 0
             THEN read_text_loop(r.w, Append(result, r.buffer[1]), made)
             ELSE Returned(r.w, success, Append(result, r.buffer[1]), made)

\* read<StringType>(data_endian): the null-terminated read, char units.
read_text(w, data_endian) ==
    IF ~validate(w) THEN on_assert(w) ELSE read_text_loop(w, <<>>, <<>>)

\* read<StringType>(lenght, data_endian) that reorders the units it read for a
\* non-native data_endian.
read_lenght_swapped(w, lenght, data_endian) ==
    IF ~validate(w) THEN on_assert(w)
    ELSE LET r == on_read(w, Zeros(lenght), lenght)
             calls == <<Call("on_read", lenght, r.status)>>
         IN  IF r.status # success
             THEN Returned(r.w, r.status, <<>>, calls)
             ELSE Returned(r.w, success, endian_swap(data_endian, r.buffer), calls)

\* read<StringType>(lenght, data_endian) that hands back its buffer without
\* looking at the Status of on_read.
read_lenght_unchecked(w, lenght, data_endian) ==
    IF ~validate(w) THEN on_assert(w)
    ELSE LET r == on_read(w, Zeros(lenght), lenght)
         IN  Returned(r.w, success, r.buffer, <<Call("on_read", lenght, r.status)>>)

\* read<StringType>(lenght, data_endian) with char units: data_endian is not
\* used by the body.
read_lenght(w, lenght, data_endian) ==
    IF ~validate(w) THEN on_assert(w)
    ELSE LET r == on_read(w, Zeros(lenght), lenght)
             calls == <<Call("on_read", lenght, r.status)>>
         IN  IF r.status # success
             THEN Returned(r.w, r.status, <<>>, calls)
             ELSE Returned(r.w, success, r.buffer, calls)

\* read<T>(data_endian) for a standard-layout trivial class T of sizeof(T) =
\* size: the struct overload reads sizeof(T) bytes into the object and returns
\* it as read.  The value is the object representation.
read_struct(w, size, data_endian) ==
    IF ~validate(w) THEN on_assert(w)
    ELSE LET r == on_read(w, Zeros(size), size)
             calls == <<Call("on_read", size, r.status)>>
         IN  IF r.status # success
             THEN Returned(r.w, r.status, <<>>, calls)
             ELSE Returned(r.w, success, r.buffer, calls)

\* peek<T>(data_endian) for a trivial class T: the same template as for an
\* arithmetic T, so endian_swap acts on the object as one element of
\* sizeof(T) bytes.  The value is the object representation.
peek_struct(w, size, data_endian) ==
    IF ~validate(w) THEN on_assert(w)
    ELSE LET r == on_peek(w, Zeros(size), size)
             calls == <<Call("on_peek", size, r.status)>>
         IN  IF r.status # success
             THEN Returned(r.w, r.status, <<>>, calls)
             ELSE Returned(r.w, success, endian_swap(data_endian, r.buffer), calls)

RECURSIVE endian_swap_visitor(_, _, _)
\* endian_swap_visitor(data_endian, &data) over the fields of data in
\* declaration order: fields is the sequence of the widths of its arithmetic
\* and enum members, those of a sub-struct and the elements of an array in
\* place, and each is swapped on its own.
endian_swap_visitor(data_endian, fields, data) ==
    IF fields = <<>> THEN data
    ELSE endian_swap(data_endian, SubSeq(data, 1, Head(fields)))
         \o endian_swap_visitor(data_endian, Tail(fields),
                                SubSeq(data, Head(fields) + 1, Len(data)))

\* peek<T>(data_endian).
peek(w, size, data_endian) ==
    IF ~validate(w) THEN on_assert(w)
    ELSE LET r == on_peek(w, Zeros(size), size)
             calls == <<Call("on_peek", size, r.status)>>
         IN  IF r.status # success
             THEN Returned(r.w, r.status, -1, calls)
             ELSE Returned(r.w, success,
                           FromBytes(endian_swap(data_endian, r.buffer)), calls)

\* write<T> that stores the native representation whatever the endianness.
write_unswapped(w, size, data, data_endian) ==
    IF ~validate(w) THEN on_assert(w)
    ELSE LET r == on_write(w, ToBytes(data, size), size)
             calls == <<Call("on_write", size, r.status)>>
         IN  Returned(r.w, r.status, -1, calls)

\* write<T>(data, data_endian).
write(w, size, data, data_endian) ==
    IF ~validate(w) THEN on_assert(w)
    ELSE LET r == on_write(w, endian_swap(data_endian, ToBytes(data, size)), size)
             calls == <<Call("on_write", size, r.status)>>
         IN  Returned(r.w, r.status, -1, calls)

\* write<T>(data, data_endian) for a trivial class T, data being its object
\* representation: the same template as for an arithmetic T, so endian_swap
\* acts on the object as one element of sizeof(T) bytes.
write_struct(w, size, data, data_endian) ==
    IF ~validate(w) THEN on_assert(w)
    ELSE LET r == on_write(w, endian_swap(data_endian, data), size)
             calls == <<Call("on_write", size, r.status)>>
         IN  Returned(r.w, r.status, -1, calls)

\* The string write that also stores the terminator of the std::string
\* (text.size() + 1 bytes).
write_string_terminated(w, text) ==
    LET r == on_write(w, Append(text, 0), Len(text) + 1)
    IN  Returned(r.w, -1, -1, <<Call("on_write", Len(text) + 1, r.status)>>)

\* write(std::string text): returns nothing; the backend's Status is dropped.
write_text(w, text) ==
    LET r == on_write(w, text, Len(text))
    IN  Returned(r.w, -1, -1, <<Call("on_write", Len(text), r.status)>>)

\* ------------------------------------------------------------ operations
\* The world the FileStream object of the program acts on.
World == [f |-> m_file, d |-> disk]

\* What the caller saw of the last operation: its name and arguments, the
\* Status and value it returned, the backend calls it made, and (ctx) the
\* operations it directly follows, for the properties that span calls.
NoCtx == [k |-> "none", size |-> 0, e |-> Native, v |-> 0, p |-> 0, enough |-> FALSE]

Rec(op, size, e, n, r, ctx) ==
    [op |-> op, size |-> size, e |-> e, n |-> n, status |-> r.status,
     value |-> r.value, calls |-> r.calls, ctx |-> ctx]

Plain(w, value) == Returned(w, -1, value, <<>>)

Commit(r, rec, nowLive) ==
    /\ m_file' = r.w.f
    /\ disk' = r.w.d
    /\ terminated' = r.exited
    /\ live' = nowLive
    /\ last' = rec
    /\ UNCHANGED <<mainVars, memVars>>

\* fs.initialize(path, overwrite)
Initialize(overwrite) ==
    /\ ~terminated
    /\ LET r == on_initialize(World, overwrite)
       IN  Commit(Plain(r.w, r.ret),
                  Rec("initialize", 0, Native, IF overwrite THEN 1 ELSE 0,
                      Plain(r.w, r.ret), NoCtx),
                  IF r.ret THEN TRUE ELSE live)

\* fs.quiesce()
Quiesce ==
    /\ ~terminated
    /\ LET r == on_quiesce(World)
       IN  Commit(Plain(r.w, r.ret),
                  Rec("quiesce", 0, Native, 0, Plain(r.w, r.ret), NoCtx), FALSE)

\* fs.size()
Size ==
    /\ ~terminated
    /\ LET r == on_size(World)
       IN  Commit(Plain(r.w, r.ret),
                  Rec("size", 0, Native, 0, Plain(r.w, r.ret), NoCtx), live)

\* fs.position()
Position ==
    /\ ~terminated
    /\ LET r == on_position(World)
       IN  Commit(Plain(r.w, r.ret),
                  Rec("position", 0, Native, 0, Plain(r.w, r.ret), NoCtx), live)

\* fs.seek(position)
Seek(position) ==
    /\ ~terminated
    /\ LET r == on_seek(World, position)
           ctx == IF last.op \in {"write", "write_struct"}
                     /\ last.ctx.k = "wrote" /\ last.ctx.p = position
                  THEN [last.ctx EXCEPT !.k = "sought"]
                  ELSE NoCtx
       IN  Commit(Plain(r.w, r.ret),
                  Rec("seek", 0, Native, position, Plain(r.w, r.ret), ctx), live)

\* fs.read<T>(data_endian)
ReadT(size, data_endian) ==
    /\ ~terminated
    /\ LET r == read(World, size, data_endian)
           ctx == IF \/ last.op = "seek" /\ last.ctx.k = "sought"
                     \/ last.op = "peek" /\ last.ctx.k = "peeked"
                  THEN last.ctx
                  ELSE NoCtx
       IN  Commit(r, Rec("read", size, data_endian, 0, r, ctx), live)

\* fs.peek<T>(data_endian)
PeekT(size, data_endian) ==
    /\ ~terminated
    /\ LET r == peek(World, size, data_endian)
           ctx == IF ~r.exited /\ r.status = success
                  THEN [k |-> "peeked", size |-> size, e |-> data_endian,
                        v |-> r.value, p |-> m_file.pos,
                        enough |-> Avail(World) >= size]
                  ELSE NoCtx
       IN  Commit(r, Rec("peek", size, data_endian, 0, r, ctx), live)

\* fs.write<T>(data, data_endian); the file is kept within MaxFile bytes.
WriteT(size, data, data_endian) ==
    /\ ~terminated
    /\ m_file.pos + size <= MaxFile
    /\ LET r == write(World, size, data, data_endian)
           ctx == IF ~r.exited /\ r.status = success
                  THEN [k |-> "wrote", size |-> size, e |-> data_endian,
                        v |-> data, p |-> m_file.pos, enough |-> TRUE]
                  ELSE NoCtx
       IN  Commit(r, Rec("write", size, data_endian, 0, r, ctx), live)

\* fs.read<std::string>(lenght, data_endian)
ReadLenght(lenght, data_endian) ==
    /\ ~terminated
    /\ LET r == read_lenght(World, lenght, data_endian)
       IN  Commit(r, Rec("read_lenght", 1, data_endian, lenght, r, NoCtx), live)

\* fs.read<std::string>(data_endian)
ReadText(data_endian) ==
    /\ ~terminated
    /\ LET r == read_text(World, data_endian)
       IN  Commit(r, Rec("read_text", 1, data_endian, 0, r, NoCtx), live)

\* The aggregates the struct operations are tried with, each given by the
\* widths of its fields in declaration order: a packed struct of a
\* std::uint8_t and a std::uint16_t, and LocalFileHeader.  A type T is an
\* index of this list.
Aggregates == << <<1, 2>>, <<4, 2, 2, 2, 2, 2, 4, 4, 4, 2, 2>> >>

\* The packed pair above.
PackedPair == 1

\* LocalFileHeader.
LocalFileHeader == 2

RECURSIVE SizeOf(_)
\* sizeof of a packed aggregate.
SizeOf(fields) == IF fields = <<>> THEN 0 ELSE Head(fields) + SizeOf(Tail(fields))

\* fs.read<Aggregate>(data_endian)
ReadStruct(T, data_endian) ==
    /\ ~terminated
    /\ LET r == read_struct(World, SizeOf(Aggregates[T]), data_endian)
           ctx == IF last.op = "seek" /\ last.ctx.k = "sought" THEN last.ctx ELSE NoCtx
       IN  Commit(r, Rec("read_struct", SizeOf(Aggregates[T]), data_endian, T, r, ctx),
                  live)

\* fs.peek<Aggregate>(data_endian)
PeekStruct(T, data_endian) ==
    /\ ~terminated
    /\ LET r == peek_struct(World, SizeOf(Aggregates[T]), data_endian)
       IN  Commit(r, Rec("peek_struct", SizeOf(Aggregates[T]), data_endian, T, r, NoCtx),
                  live)

\* fs.write(text)
WriteText(text) ==
    /\ ~terminated
    /\ m_file.pos + Len(text) <= MaxFile
    /\ LET r == write_text(World, text)
       IN  Commit(r, Rec("write_text", 1, Native, Len(text), r, NoCtx), live)

\* A read through the DummyStream backend, which has no resource and no
\* lifecycle: DummyStreamImplementation::on_read(buffer, count).
DummyRead(count) ==
    /\ ~terminated
    /\ last' = Rec("dummy_read", 1, Native, count,
                   Returned(World, -1, -1,
                            <<Call("dummy_on_read", count, dummy_on_read(count))>>),
                   NoCtx)
    /\ UNCHANGED <<m_file, disk, live, terminated>>
    /\ UNCHANGED <<mainVars, memVars>>

\* ------------------------------------------------------------ specification
\* Byte strings of at most n bytes.
Strings(n) == UNION {[1..k -> Byte] : k \in 0..n}

\* std::fstream's default constructor: no file, goodbit.
NewStream == [open |-> FALSE, st |-> {}, pos |-> 0]

\* A path naming no file.
NoFile == [exists |-> FALSE, data |-> <<>>, denied |-> FALSE]

\* -------------------------------------------------------------- Mallocator
\* Block::dummy(): Block{} with address 0 and size 0.
dummy == [address |-> 0, size |-> 0]

\* Block(pointer, size)
Block(pointer, size) == [address |-> pointer, size |-> size]

\* operator==(Block const &, Block const &)
Block_equal(lhs, rhs) == lhs.address = rhs.address /\ lhs.size = rhs.size

\* AllocatorStatistics stats{0}
NoStatistics ==
    [block_count_current |-> 0, block_count_total |-> 0,
     bytes_allocated_current |-> 0, bytes_allocated_total |-> 0,
     bytes_deallocated_total |-> 0]

\* The addresses the C heap can hand out.
MaxAddress == 2

Addresses == 1..MaxAddress

\* The allocator as one value: a = [blocks, stats, heap].
Allocator == [blocks |-> blocks, stats |-> stats, heap |-> heap]

\* on_contains(block): std::find over blocks.
on_contains(a, block) ==
    \E i \in DOMAIN a.blocks : Block_equal(a.blocks[i], block)

\* std::remove(begin, end, block) followed by erase.
Remove(bs, block) == SelectSeq(bs, LAMBDA b : ~Block_equal(b, block))

\* on_allocate that counts the request before looking at the pointer.
on_allocate_counts_first(a, size, alignment, pointer) ==
    LET counted == [a.stats EXCEPT !.bytes_allocated_total = @ + size,
                                   !.bytes_allocated_current = @ + size,
                                   !.block_count_current = @ + 1,
                                   !.block_count_total = @ + 1]
    IN  IF pointer = 0
        THEN [a |-> [a EXCEPT !.stats = counted], block |-> dummy]
        ELSE [a |-> [blocks |-> Append(a.blocks, Block(pointer, size)),
                     stats |-> counted,
                     heap |-> a.heap \cup {pointer}],
              block |-> Block(pointer, size)]

\* on_allocate(size, alignment), pointer being what aligned_alloc returned
\* (0 for nullptr).
on_allocate(a, size, alignment, pointer) ==
    IF pointer = 0
    THEN [a |-> a, block |-> dummy]
    ELSE [a |-> [blocks |-> Append(a.blocks, Block(pointer, size)),
                 stats |-> [a.stats EXCEPT !.bytes_allocated_total = @ + size,
                                           !.bytes_allocated_current = @ + size,
                                           !.block_count_current = @ + 1,
                                           !.block_count_total = @ + 1],
                 heap |-> a.heap \cup {pointer}],
          block |-> Block(pointer, size)]

\* The heaps ::free(pointer) can leave: nothing happens for nullptr, the
\* address is given back when it is live, and anything at all otherwise.
free(h, pointer) ==
    IF pointer = 0 THEN {h}
    ELSE IF pointer \in h THEN {h \ {pointer}}
    ELSE SUBSET Addresses

\* on_deallocate(block), heap_after being the heap ::free left; block is
\* the caller's Block after the call.
on_deallocate(a, block, heap_after) ==
    [a |-> [blocks |-> Remove(a.blocks, block),
            stats |-> [a.stats EXCEPT !.bytes_allocated_current = @ - block.size,
                                      !.bytes_deallocated_total = @ + block.size,
                                      !.block_count_current = @ - 1],
            heap |-> heap_after],
     exited |-> FALSE, freed |-> block.address, block |-> dummy, ret |-> TRUE]

\* Allocator::deallocate without the ownership check.
deallocate_unchecked(a, block, heap_after) == on_deallocate(a, block, heap_after)

\* Allocator::deallocate(block): expect(on_contains(block)) ends the process
\* before on_deallocate; freed is -1 when ::free was not reached.
deallocate(a, block, heap_after) ==
    IF ~on_contains(a, block)
    THEN [a |-> a, exited |-> TRUE, freed |-> -1, block |-> block, ret |-> FALSE]
    ELSE on_deallocate(a, block, heap_after)

\* Allocator::contains(block)
contains(a, block) == on_contains(a, block)

\* One call on the allocator: what was asked (size and alignment of an
\* allocate, the caller's block of a deallocate or contains, the caller's
\* variable it went through), its result, the address given to ::free
\* (-1 when none) and the allocator before the call.
MemCall(op, slot, size, alignment, block, ok, result, freed, before) ==
    [op |-> op, slot |-> slot, size |-> size, alignment |-> alignment,
     block |-> block, ok |-> ok, result |-> result, freed |-> freed,
     before |-> before]

\* A Mallocator just constructed, with the caller holding no block.
MemIdle ==
    /\ blocks = <<>>
    /\ stats = NoStatistics
    /\ heap = {}
    /\ held = <<dummy, dummy>>
    /\ mem = MemCall("none", 0, 0, 0, dummy, FALSE, dummy, -1,
                     [blocks |-> <<>>, stats |-> NoStatistics, heap |-> {}])

\* A path naming a file of the given bytes.
FileOf(data) == [exists |-> TRUE, data |-> data, denied |-> FALSE]

\* zip_extractor_main is not running.
MainIdle ==
    /\ pc = "idle"
    /\ files = <<>>
    /\ index = 1
    /\ fs = NewStream
    /\ out = NoFile
    /\ log = <<>>
    /\ ret = -1
    /\ MemIdle

\* A default-constructed FileStream; the file named by the path either does
\* not exist or holds at most MaxFile bytes.
Init ==
    /\ m_file = NewStream
    /\ disk \in {NoFile} \cup {FileOf(s) : s \in Strings(MaxFile)}
    /\ live = FALSE
    /\ terminated = FALSE
    /\ last = Rec("none", 0, Native, 0, Plain(World, -1), NoCtx)
    /\ MainIdle

Next ==
    \/ \E overwrite \in BOOLEAN : Initialize(overwrite)
    \/ Quiesce
    \/ Size
    \/ Position
    \/ \E position \in (0..MaxFile) \cup {-1} : Seek(position)
    \/ \E size \in Sizes, e \in Endian : ReadT(size, e)
    \/ \E size \in Sizes, e \in Endian : PeekT(size, e)
    \/ \E size \in Sizes, e \in Endian : \E data \in Values(size) : WriteT(size, data, e)
    \/ \E lenght \in 0..2, e \in Endian : ReadLenght(lenght, e)
    \/ \E e \in Endian : ReadText(e)
    \/ \E e \in Endian : ReadStruct(PackedPair, e)
    \/ \E e \in Endian : PeekStruct(PackedPair, e)
    \/ \E text \in Strings(2) : WriteText(text)
    \/ \E count \in 0..1 : DummyRead(count)

Spec == Init /\ [][Next]_vars

\* ------------------------------------------------------ ZIP local-file record
\* sizeof(LocalFileHeader), packed.
HeaderSize == 30

\* The fields of LocalFileHeader in declaration order, with their widths.
HeaderFields ==
    << <<"signature", 4>>, <<"version_needed", 2>>, <<"flags", 2>>,
       <<"compression_method", 2>>, <<"last_mod_time", 2>>,
       <<"last_mod_date", 2>>, <<"crc32", 4>>, <<"compressed_size", 4>>,
       <<"uncompressed_size", 4>>, <<"file_name_length", 2>>,
       <<"extra_field_length", 2>> >>

RECURSIVE OffsetOf_aligned(_)
\* Offset of the i-th field were the struct not packed: each field at the
\* next multiple of its width.
OffsetOf_aligned(i) ==
    IF i = 1 THEN 0
    ELSE LET end == OffsetOf_aligned(i - 1) + HeaderFields[i - 1][2]
             a == HeaderFields[i][2]
         IN  ((end + a - 1) \div a) * a

RECURSIVE OffsetOf(_)
\* Offset of the i-th field of the packed struct: the widths before it.
OffsetOf(i) == IF i = 1 THEN 0 ELSE OffsetOf(i - 1) + HeaderFields[i - 1][2]

FieldIndex(name) == CHOOSE i \in DOMAIN HeaderFields : HeaderFields[i][1] = name

\* The value of a field of the LocalFileHeader whose object representation
\* is the HeaderSize bytes bs.
Field(bs, name) ==
    LET i == FieldIndex(name)
    IN  FromBytes(SubSeq(bs, OffsetOf(i) + 1, OffsetOf(i) + HeaderFields[i][2]))

\* The assembly after one field read r: st is [w, exited, calls, fields],
\* and a field whose read failed stays empty.
AfterField(st, r) ==
    [w |-> r.w, exited |-> r.exited, calls |-> st.calls \o r.calls,
     fields |-> IF r.exited THEN st.fields
                ELSE Append(st.fields, IF r.status = success THEN r.value ELSE <<>>)]

\* One read<std::string>(lenght) of filelist.
ReadField(st, lenght) ==
    IF st.exited THEN st ELSE AfterField(st, read_lenght(st.w, lenght, Native))

\* The end of filelist: print_local_file, push_back, return.
Assembled(file_header, st) ==
    IF st.exited
    THEN [w |-> st.w, exited |-> TRUE, status |-> -1, value |-> <<>>,
          calls |-> st.calls]
    ELSE Returned(st.w, -1,
                  <<[header |-> file_header, file_name |-> st.fields[1],
                     extra_field |-> st.fields[2], data |-> st.fields[3]]>>,
                  st.calls)

\* The three field reads of filelist, in order, after the header file_header.
ReadFields(file_header, st) ==
    Assembled(file_header,
              ReadField(ReadField(ReadField(st, Field(file_header, "file_name_length")),
                                  Field(file_header, "extra_field_length")),
                        Field(file_header, "compressed_size")))

\* filelist after read<LocalFileHeader>(std::endian::native) returned.
AfterHeader(e_file_header) ==
    IF e_file_header.exited THEN e_file_header
    ELSE IF e_file_header.status # success
    THEN Returned(e_file_header.w, -1, <<>>, e_file_header.calls)
    ELSE ReadFields(e_file_header.value,
                    [w |-> e_file_header.w, exited |-> FALSE,
                     calls |-> e_file_header.calls, fields |-> <<>>])

\* filelist() that reads from wherever the cursor is.
filelist_no_seek(w) == AfterHeader(read_struct(w, HeaderSize, Native))

\* ZipArchiveImplementation::filelist()
filelist(w) == AfterHeader(read_struct(on_seek(w, 0).w, HeaderSize, Native))

\* archive.initialize(filepath): m_serializer.initialize(filepath)
ZipInitialize ==
    /\ ~terminated
    /\ LET r == on_initialize(World, FALSE)
       IN  Commit(Plain(r.w, r.ret),
                  Rec("zip_initialize", 0, Native, 0, Plain(r.w, r.ret), NoCtx),
                  IF r.ret THEN TRUE ELSE live)

\* archive.filelist()
Filelist ==
    /\ ~terminated
    /\ LET r == filelist(World)
       IN  Commit(r, Rec("filelist", 0, Native, 0, r, NoCtx), live)

\* Longest name, extra field and payload of the archives tried.
MaxField == 2

RECURSIVE Encode(_, _)
\* The bytes of a header given as the sequence of its field values.
Encode(values, i) ==
    IF i > Len(HeaderFields) THEN <<>>
    ELSE ToBytes(values[i], HeaderFields[i][2]) \o Encode(values, i + 1)

\* A local-file header declaring the three lengths nl, el, cs.
HeaderBytes(nl, el, cs) ==
    Encode(<<67324752, 20, 0, 0, 0, 0, 48879, cs, cs, nl, el>>, 1)

\* A header followed by the bytes 65, 66, ...: one more than it declares.
ArchiveBytes(nl, el, cs) ==
    HeaderBytes(nl, el, cs) \o [i \in 1..(nl + el + cs + 1) |-> 64 + i]

\* The lengths an archive is cut at: inside the header, inside a field, and
\* past the record.
Cuts == {0, HeaderSize - 1} \cup (HeaderSize..(HeaderSize + 3 * MaxField + 1))

\* The archives tried, and the case of no file at all.
Archives ==
    {NoFile}
    \cup {FileOf(SubSeq(ArchiveBytes(c[1], c[2], c[3]), 1,
                        Min(c[4], HeaderSize + c[1] + c[2] + c[3] + 1))) :
             c \in (0..MaxField) \X (0..MaxField) \X (0..MaxField) \X Cuts}

InitZip ==
    /\ m_file = NewStream
    /\ disk \in Archives
    /\ live = FALSE
    /\ terminated = FALSE
    /\ last = Rec("none", 0, Native, 0, Plain(World, -1), NoCtx)
    /\ MainIdle

NextZip ==
    \/ ZipInitialize
    \/ Filelist

SpecZip == InitZip /\ [][NextZip]_vars

\* ------------------------------------------------- LocalFileHeader on a stream
\* The headers written: h is an index of this list.
Headers == <<HeaderBytes(1, 0, 2), HeaderBytes(2, 1, 0)>>

\* The stream of the header specification holds at most this many headers.
MaxHeaders == 2

\* fs.write<T>(Headers[h], data_endian) for the aggregate T.
WriteStruct(T, h, data_endian) ==
    /\ ~terminated
    /\ m_file.pos + SizeOf(Aggregates[T]) <= MaxHeaders * HeaderSize
    /\ LET r == write_struct(World, SizeOf(Aggregates[T]), Headers[h], data_endian)
           ctx == IF ~r.exited /\ r.status = success
                  THEN [k |-> "wrote", size |-> SizeOf(Aggregates[T]),
                        e |-> data_endian, v |-> h, p |-> m_file.pos, enough |-> TRUE]
                  ELSE NoCtx
       IN  Commit(r, Rec("write_struct", SizeOf(Aggregates[T]), data_endian, T, r, ctx),
                  live)

\* A default-constructed FileStream and a path naming no file yet.
InitHeader ==
    /\ m_file = NewStream
    /\ disk = NoFile
    /\ live = FALSE
    /\ terminated = FALSE
    /\ last = Rec("none", 0, Native, 0, Plain(World, -1), NoCtx)
    /\ MainIdle

NextHeader ==
    \/ \E overwrite \in BOOLEAN : Initialize(overwrite)
    \/ \E h \in DOMAIN Headers, e \in Endian : WriteStruct(LocalFileHeader, h, e)
    \/ \E k \in 0..MaxHeaders : Seek(k * HeaderSize)
    \/ \E e \in Endian : ReadStruct(LocalFileHeader, e)

SpecHeader == InitHeader /\ [][NextHeader]_vars

\* ------------------------------------------------------------------ Status
\* The remaining StatusCode enumerators the conversions name.
unknown == 2
unauthenticated == 16

\* enum class StatusCode : std::uint32_t, success = 0 .. unauthenticated = 16.
StatusCode == success..unauthenticated

\* Numeric codes from 0 to MaxValue are tried, and the values below.
MaxValue == 40

\* Values of the underlying type far from the enumerators (one byte, two
\* bytes and the largest positive value of 32 bits).
FarValues == {255, 256, 65535, 65536, 2147483647}

\* map_to_status_code without its switch: the static_cast alone.
map_to_status_code_cast(value) == value

\* map_to_status_code(value): the cases of the switch return status_code,
\* the default returns StatusCode::unknown.
map_to_status_code(value) ==
    IF value \in {success, 1, unknown, 3, 4, 5, 6, 7, 8, failed_precondition,
                  aborted, out_of_range, 12, 13, 14, 15, unauthenticated}
    THEN value
    ELSE unknown

\* Status(status_code, status_message)
Status(status_code, status_message) ==
    [code |-> status_code, message |-> status_message]

\* Status::success()
Status_success(s) == s.code = success

\* operator== that also compares the messages.
Status_equal_with_message(lhs, rhs) == lhs = rhs

\* operator==(Status const &lhs, Status const &rhs)
Status_equal(lhs, rhs) == lhs.code = rhs.code

\* The messages Status values are built with.
Messages == {"", "EOF reached."}

\* What a call of one of the functions above was given and returned.
Pure(op, args, result) ==
    Rec(op, 0, Native, 0,
        Returned(World, -1, [args |-> args, ret |-> result], <<>>), NoCtx)

\* map_to_status_code(value)
MapToStatusCode(value) ==
    /\ last' = Pure("map_to_status_code", <<value>>, map_to_status_code(value))
    /\ UNCHANGED <<m_file, disk, live, terminated>>
    /\ UNCHANGED <<mainVars, memVars>>

\* Status(code, message).success()
StatusSuccess(code, message) ==
    /\ last' = Pure("success", <<Status(code, message)>>,
                    Status_success(Status(code, message)))
    /\ UNCHANGED <<m_file, disk, live, terminated>>
    /\ UNCHANGED <<mainVars, memVars>>

\* lhs == rhs
StatusEqual(lhs, rhs) ==
    /\ last' = Pure("operator==", <<lhs, rhs>>, Status_equal(lhs, rhs))
    /\ UNCHANGED <<m_file, disk, live, terminated>>
    /\ UNCHANGED <<mainVars, memVars>>

\* No stream is in use.
InitStatus ==
    /\ m_file = NewStream
    /\ disk = NoFile
    /\ live = FALSE
    /\ terminated = FALSE
    /\ last = Pure("none", <<>>, 0)
    /\ MainIdle

NextStatus ==
    \/ \E value \in (0..MaxValue) \cup FarValues : MapToStatusCode(value)
    \/ \E code \in StatusCode, message \in Messages : StatusSuccess(code, message)
    \/ \E c1 \in StatusCode, c2 \in StatusCode, m1 \in Messages, m2 \in Messages :
           StatusEqual(Status(c1, m1), Status(c2, m2))

SpecStatus == InitStatus /\ [][NextStatus]_vars

\* ------------------------------------------- endian_swap, is_power_of_2
\* endian_swap(data_endian, data, data_lenght) on an array held as the
\* sequence of its elements, each the sizeof(T) bytes of one element: the
\* loop swaps the first data_lenght of them.
endian_swap_array(data_endian, data, data_lenght) ==
    [i \in DOMAIN data |->
        IF i <= data_lenght THEN endian_swap(data_endian, data[i]) ELSE data[i]]

\* sizeof(T) of the element types endian_swap is tried with.
SwapSizes == {1, 2, 4}

\* The elements tried are the first sizeof(T) bytes of these values
\* (1, 0x0102 and 0x01020304).
SwapValues == {1, 258, 16909060}

\* Longest array endian_swap is tried with.
MaxCount == 2

\* The arrays of elements of sizeof(T) = size.
SwapArrays(size) ==
    UNION {[1..k -> {ToBytes(v, size) : v \in SwapValues}] : k \in 1..MaxCount}

\* The integral type is_power_of_2, round_up and align_forward are used with
\* is taken Bits wide (std::uint8_t); unsigned arithmetic wraps modulo 2^Bits.
Bits == 8

Wrap(v) == v % (2 ^ Bits)

RECURSIVE BitAnd(_, _)
\* a & b
BitAnd(a, b) ==
    IF a = 0 \/ b = 0 THEN 0
    ELSE (a % 2) * (b % 2) + 2 * BitAnd(a \div 2, b \div 2)

\* ~a
BitNot(a) == (2 ^ Bits) - 1 - a

\* is_power_of_2(value), integral overload.
is_power_of_2(value) == BitAnd(value, Wrap(value - 1)) = 0

\* round_up(value, round_up_to): exited when expect() ends the process.
round_up(value, round_up_to) ==
    IF ~is_power_of_2(round_up_to)
    THEN [exited |-> TRUE, ret |-> -1]
    ELSE [exited |-> FALSE,
          ret |-> BitAnd(Wrap(value + Wrap(round_up_to - 1)),
                         BitNot(Wrap(round_up_to - 1)))]

\* align_forward(pointer, alignment)
align_forward(pointer, alignment) ==
    IF ~is_power_of_2(alignment)
    THEN [exited |-> TRUE, ret |-> -1]
    ELSE LET modulo == BitAnd(pointer, Wrap(alignment - 1))
         IN  [exited |-> FALSE,
              ret |-> IF modulo = 0 THEN pointer
                      ELSE Wrap(pointer + alignment - modulo)]

\* Largest value and alignment round_up and align_forward are tried with.
MaxAlign == 8

\* endian_swap(data_endian, data, data_lenght)
EndianSwap(data_endian, data, data_lenght) ==
    /\ ~terminated
    /\ last' = Pure("endian_swap", <<data_endian, data, data_lenght>>,
                    endian_swap_array(data_endian, data, data_lenght))
    /\ UNCHANGED <<m_file, disk, live, terminated>>
    /\ UNCHANGED <<mainVars, memVars>>

\* is_power_of_2(value)
IsPowerOf2(value) ==
    /\ ~terminated
    /\ last' = Pure("is_power_of_2", <<value>>, is_power_of_2(value))
    /\ UNCHANGED <<m_file, disk, live, terminated>>
    /\ UNCHANGED <<mainVars, memVars>>

\* round_up(value, round_up_to)
RoundUp(value, round_up_to) ==
    /\ ~terminated
    /\ last' = Pure("round_up", <<value, round_up_to>>,
                    round_up(value, round_up_to).ret)
    /\ terminated' = round_up(value, round_up_to).exited
    /\ UNCHANGED <<m_file, disk, live>>
    /\ UNCHANGED <<mainVars, memVars>>

\* align_forward(pointer, alignment)
AlignForward(pointer, alignment) ==
    /\ ~terminated
    /\ last' = Pure("align_forward", <<pointer, alignment>>,
                    align_forward(pointer, alignment).ret)
    /\ terminated' = align_forward(pointer, alignment).exited
    /\ UNCHANGED <<m_file, disk, live>>
    /\ UNCHANGED <<mainVars, memVars>>

NextPure ==
    \/ \E e \in Endian, size \in SwapSizes :
           \E data \in SwapArrays(size) :
               \E n \in 0..Len(data) : EndianSwap(e, data, n)
    \/ \E value \in 0..(2 ^ Bits - 1) : IsPowerOf2(value)
    \/ \E value \in 0..MaxAlign, to \in 0..MaxAlign : RoundUp(value, to)
    \/ \E pointer \in 0..MaxAlign, alignment \in 0..MaxAlign :
           AlignForward(pointer, alignment)

SpecPure == InitStatus /\ [][NextPure]_vars

\* ------------------------------------------------- Mallocator in use
\* Largest size asked of allocate.
MaxBlock == 1

\* allocate is tried until the allocator has handed out this many blocks.
MaxAllocations == 3

\* The alignments asked of allocate: 1 and alignof(std::max_align_t).
Alignments == {1, 16}

\* The Block variables of the caller.
Slots == 1..2

\* held[slot] = allocator.allocate(size, alignment), aligned_alloc
\* returning pointer: nullptr, or an address that is not live.
Allocate(slot, size, alignment, pointer) ==
    /\ ~terminated
    /\ stats.block_count_total < MaxAllocations
    /\ pointer \in {0} \cup (Addresses \ heap)
    /\ LET r == on_allocate(Allocator, size, alignment, pointer)
       IN  /\ blocks' = r.a.blocks
           /\ stats' = r.a.stats
           /\ heap' = r.a.heap
           /\ held' = [held EXCEPT ![slot] = r.block]
           /\ mem' = MemCall("allocate", slot, size, alignment, dummy,
                             pointer # 0, r.block, -1, Allocator)
    /\ UNCHANGED <<m_file, disk, live, terminated, last>>
    /\ UNCHANGED mainVars

\* allocator.deallocate(held[slot])
Deallocate(slot) ==
    /\ ~terminated
    /\ \E heap_after \in free(heap, held[slot].address) :
           LET r == deallocate(Allocator, held[slot], heap_after)
           IN  /\ blocks' = r.a.blocks
               /\ stats' = r.a.stats
               /\ heap' = r.a.heap
               /\ held' = [held EXCEPT ![slot] = r.block]
               /\ terminated' = r.exited
               /\ mem' = MemCall("deallocate", slot, 0, 0, held[slot],
                                 r.ret, r.block, r.freed, Allocator)
    /\ UNCHANGED <<m_file, disk, live, last>>
    /\ UNCHANGED mainVars

\* allocator.contains(held[slot])
Contains(slot) ==
    /\ ~terminated
    /\ mem' = MemCall("contains", slot, 0, 0, held[slot],
                      contains(Allocator, held[slot]), held[slot], -1, Allocator)
    /\ UNCHANGED <<blocks, stats, heap, held>>
    /\ UNCHANGED <<m_file, disk, live, terminated, last>>
    /\ UNCHANGED mainVars

\* The caller saves a copy: held[to] = held[from].
CopyBlock(from, to) ==
    /\ ~terminated
    /\ from # to
    /\ held' = [held EXCEPT ![to] = held[from]]
    /\ mem' = MemCall("copy", to, 0, 0, held[from], TRUE, held[from], -1, Allocator)
    /\ UNCHANGED <<blocks, stats, heap>>
    /\ UNCHANGED <<m_file, disk, live, terminated, last>>
    /\ UNCHANGED mainVars

NextMalloc ==
    \/ \E slot \in Slots, size \in 0..MaxBlock, alignment \in Alignments :
           \E pointer \in 0..MaxAddress : Allocate(slot, size, alignment, pointer)
    \/ \E slot \in Slots : Deallocate(slot)
    \/ \E slot \in Slots : Contains(slot)
    \/ \E from \in Slots, to \in Slots : CopyBlock(from, to)

\* A Mallocator just constructed and no stream in use.
SpecMalloc == InitStatus /\ [][NextMalloc]_vars

\* ------------------------------------------------------ zip_extractor_main
\* The world the output FileStream fs of the extractor acts on: the file
\* named by the file_name of the record.
OutWorld == [f |-> fs, d |-> out]

\* One lifecycle call the extractor made on one of its two streams.
Lifecycle(stream, op, arg, result) ==
    [stream |-> stream, op |-> op, arg |-> arg, ret |-> result]

\* if (argc < 2) { print usage; return 1; }
MainEnter(argc) ==
    /\ pc = "start"
    /\ pc' = IF argc < 2 THEN "done" ELSE "initialize"
    /\ ret' = IF argc < 2 THEN 1 ELSE ret
    /\ UNCHANGED <<m_file, disk, live, terminated, last, files, index, fs, out, log>>
    /\ UNCHANGED memVars

\* if (!archive.initialize(filepath)) { return 2; }
MainInitialize ==
    /\ pc = "initialize"
    /\ LET r == on_initialize(World, FALSE)
       IN  /\ m_file' = r.w.f
           /\ disk' = r.w.d
           /\ live' = r.ret
           /\ log' = Append(log, Lifecycle("archive", "initialize", <<>>, r.ret))
           /\ pc' = IF r.ret THEN "filelist" ELSE "done"
           /\ ret' = IF r.ret THEN ret ELSE 2
    /\ UNCHANGED <<terminated, last, files, index, fs, out>>
    /\ UNCHANGED memVars

\* auto files = archive.filelist(); FileStream fs;
MainFilelist ==
    /\ pc = "filelist"
    /\ LET r == filelist(World)
       IN  /\ m_file' = r.w.f
           /\ disk' = r.w.d
           /\ terminated' = r.exited
           /\ files' = r.value
           /\ last' = Rec("filelist", 0, Native, 0, r, NoCtx)
           /\ pc' = IF r.exited THEN "exited" ELSE "loop"
    /\ UNCHANGED <<live, index, fs, out, log, ret>>
    /\ UNCHANGED memVars

\* for (LocalFile const &file : files): the end of the range (return 0) and
\* `if (file.file_name.empty()) { return 3; }`.
MainLoop ==
    /\ pc = "loop"
    /\ pc' = IF index <= Len(files) /\ files[index].file_name # <<>>
             THEN "fs_initialize" ELSE "done"
    /\ ret' = IF index > Len(files) THEN 0
              ELSE IF files[index].file_name = <<>> THEN 3 ELSE ret
    /\ UNCHANGED <<m_file, disk, live, terminated, last, files, index, fs, out, log>>
    /\ UNCHANGED memVars

\* fs.initialize(file.file_name, true);
MainFsInitialize ==
    /\ pc = "fs_initialize"
    /\ LET r == on_initialize(OutWorld, TRUE)
       IN  /\ fs' = r.w.f
           /\ out' = r.w.d
           /\ log' = Append(log, Lifecycle("fs", "initialize",
                                           files[index].file_name, r.ret))
    /\ pc' = "fs_write"
    /\ UNCHANGED <<m_file, disk, live, terminated, last, files, index, ret>>
    /\ UNCHANGED memVars

\* fs.write(file.data);
MainFsWrite ==
    /\ pc = "fs_write"
    /\ LET r == write_text(OutWorld, files[index].data)
       IN  /\ fs' = r.w.f
           /\ out' = r.w.d
    /\ pc' = "fs_quiesce"
    /\ UNCHANGED <<m_file, disk, live, terminated, last, files, index, log, ret>>
    /\ UNCHANGED memVars

\* fs.quiesce(); and the step of the range-for.
MainFsQuiesce ==
    /\ pc = "fs_quiesce"
    /\ LET r == on_quiesce(OutWorld)
       IN  /\ fs' = r.w.f
           /\ out' = r.w.d
           /\ log' = Append(log, Lifecycle("fs", "quiesce", <<>>, r.ret))
    /\ index' = index + 1
    /\ pc' = "loop"
    /\ UNCHANGED <<m_file, disk, live, terminated, last, files, ret>>
    /\ UNCHANGED memVars

\* What an output file that exists before the extraction holds ("OLD").
OldOutput == <<79, 76, 68>>

\* The extractor is started on one of the archives; the path named by the
\* record does not exist, names an older file, or cannot be opened.
InitMain ==
    /\ m_file = NewStream
    /\ disk \in Archives
    /\ live = FALSE
    /\ terminated = FALSE
    /\ last = Rec("none", 0, Native, 0, Plain(World, -1), NoCtx)
    /\ pc = "start"
    /\ files = <<>>
    /\ index = 1
    /\ fs = NewStream
    /\ out \in {NoFile, FileOf(OldOutput), [NoFile EXCEPT !.denied = TRUE]}
    /\ log = <<>>
    /\ ret = -1
    /\ MemIdle

NextMain ==
    \/ \E argc \in 1..2 : MainEnter(argc)
    \/ MainInitialize
    \/ MainFilelist
    \/ MainLoop
    \/ MainFsInitialize
    \/ MainFsWrite
    \/ MainFsQuiesce

SpecMain == InitMain /\ [][NextMain]_vars

\* ------------------------------------------------------------------ claims
\* The typed operations that begin with expect(this->validate(), ...).
TypedOps ==
    {"read", "peek", "write", "read_lenght", "read_text", "read_struct", "peek_struct"}

\* The one backend call a step made, when it made exactly one.
MadeCall(rec, fn) == Len(rec.calls) = 1 /\ rec.calls[1].fn = fn

\* C1: a typed operation invoked while validate() is false returns a Status
\* with code FailedPrecondition to its caller and makes no backend transfer.
C1_InvalidStreamFailedPrecondition ==
    [][(last'.op \in TypedOps /\ ~validate(World))
        => (/\ ~terminated'
            /\ last'.status = failed_precondition
            /\ last'.calls = <<>>)]_vars

\* C2: no operation of the serializer core terminates the process: whatever
\* the sequence of calls on a FileStream, every call returns to its caller.
C2_NeverTerminates == terminated = FALSE

\* C3: write<T>(v, e) that succeeded, then seek back to the position where the
\* write started, then read<T>(e): the read succeeds and returns v.
C3_RoundTrip ==
    (last.op = "read" /\ last.ctx.k = "sought"
        /\ last.size = last.ctx.size /\ last.e = last.ctx.e)
    => (/\ ~terminated
        /\ last.status = success
        /\ last.value = last.ctx.v)

\* C3 witness: a two-byte value with distinct bytes came back through a
\* non-native round trip.
C3_Witness ==
    /\ last.op = "read" /\ last.ctx.k = "sought"
    /\ last.size = 2 /\ last.ctx.size = 2
    /\ last.e # Native /\ last.ctx.e = last.e
    /\ last.status = success
    /\ ToBytes(last.ctx.v, 2)[1] # ToBytes(last.ctx.v, 2)[2]

\* C4: on_read(buffer, count) with count > 0 and at least count bytes after
\* the cursor succeeds, hands back exactly the bytes at [cursor, cursor+count)
\* and advances the cursor by exactly count, leaving the resource as it was.
C4_ReadTransfersExactly ==
    [][(MadeCall(last', "on_read") /\ last'.calls[1].count > 0
            /\ Avail(World) >= last'.calls[1].count)
        => LET count == last'.calls[1].count
               bytes == SubSeq(disk.data, m_file.pos + 1, m_file.pos + count)
           IN  /\ last'.calls[1].status = success
               /\ last'.status = success
               /\ m_file'.pos = m_file.pos + count
               /\ disk' = disk
               /\ last'.op = "read_lenght" => last'.value = bytes
               /\ last'.op = "read"
                    => last'.value = FromBytes(endian_swap(last'.e, bytes))]_vars

\* C4 witness: a two-byte read that ended exactly on the last byte of the file.
C4_Witness ==
    /\ last.op = "read_lenght" /\ last.n = 2
    /\ last.status = success
    /\ m_file.open /\ m_file.pos = Len(disk.data)
    /\ validate(World)

\* C5: on_read(buffer, count) with count > 0 and fewer than count bytes after
\* the cursor fails with OutOfRange.
C5_ShortReadOutOfRange ==
    [][(MadeCall(last', "on_read") /\ last'.calls[1].count > 0
            /\ Avail(World) < last'.calls[1].count)
        => (last'.calls[1].status = out_of_range
            /\ last'.status = out_of_range)]_vars

\* C5 witness: a two-byte read with one byte left in an open file.
C5_Witness ==
    /\ last.op = "read" /\ last.size = 2
    /\ last.status = out_of_range
    /\ m_file.open /\ m_file.pos = Len(disk.data) /\ Len(disk.data) > 0
    /\ "eof" \in m_file.st

\* C6: on an initialized stream on_peek has the outcome on_read would have
\* from the same cursor (with fewer than count bytes remaining: OutOfRange),
\* and the cursor after on_peek is the cursor before it.
C6_PeekSameOutcomeAsRead ==
    [][(MadeCall(last', "on_peek") /\ m_file.open)
        => (/\ last'.calls[1].status
                 = on_read(World, Zeros(last'.calls[1].count),
                           last'.calls[1].count).status
            /\ m_file'.pos = m_file.pos)]_vars

\* C7: on_read, on_peek and on_write with count == 0 return FailedPrecondition
\* and leave the cursor, the resource and the stream's validity unchanged:
\* for the zero-count calls the operations make, and for a zero-count call of
\* each of the three from every state the stream reaches.
C7_ZeroCountFailedPrecondition ==
    [][/\ (last'.calls # <<>> /\ last'.calls[1].count = 0
              /\ last'.calls[1].fn \in {"on_read", "on_peek", "on_write"})
          => (/\ last'.calls[1].status = failed_precondition
              /\ m_file' = m_file
              /\ disk' = disk)
       /\ LET w == [f |-> m_file', d |-> disk']
          IN  /\ on_read(w, <<>>, 0)
                   = [w |-> w, buffer |-> <<>>, status |-> failed_precondition]
              /\ on_peek(w, <<>>, 0)
                   = [w |-> w, buffer |-> <<>>, status |-> failed_precondition]
              /\ on_write(w, <<>>, 0)
                   = [w |-> w, status |-> failed_precondition]]_vars

\* C7 witness: a zero-length read and a zero-length write were made on an
\* open stream with bytes ahead of the cursor.
C7_Witness ==
    /\ last.calls # <<>> /\ last.calls[1].count = 0
    /\ last.calls[1].fn = "on_read"
    /\ last.calls[1].status = failed_precondition
    /\ m_file.open /\ Avail(World) > 0

\* C8: every read, peek or write with count > 0 issued on a backend before a
\* successful initialize, or after quiesce, fails with a non-success Status,
\* for the file backend and for the DummyStream backend (which has no
\* initialize at all).
C8_UninitializedBackendFails ==
    [][(last'.calls # <<>> /\ last'.calls[1].count > 0
            /\ (last'.calls[1].fn = "dummy_on_read" \/ ~live))
        => last'.calls[1].status # success]_vars

\* C9: with at least sizeof(T) bytes remaining, peek<T>(e) followed by
\* read<T>(e) returns the same value twice, and the cursor ends exactly
\* sizeof(T) past where it was before the two calls.
C9_PeekThenRead ==
    (last.op = "read" /\ last.ctx.k = "peeked" /\ last.ctx.enough
        /\ last.size = last.ctx.size /\ last.e = last.ctx.e)
    => (/\ ~terminated
        /\ last.status = success
        /\ last.value = last.ctx.v
        /\ m_file.pos = last.ctx.p + last.size)

\* C9 witness: a two-byte peek and read of two different bytes in the middle
\* of a file.
C9_Witness ==
    /\ last.op = "read" /\ last.ctx.k = "peeked" /\ last.ctx.enough
    /\ last.size = 2 /\ last.ctx.size = 2 /\ last.e = last.ctx.e
    /\ last.e # Native
    /\ last.status = success
    /\ last.ctx.p > 0
    /\ ToBytes(last.value, 2)[1] # ToBytes(last.value, 2)[2]

\* C10: in record assembly, when the header read succeeds and the read of a
\* field (file_name, extra_field or data) fails, for a zero length or at the
\* end of the stream, that field is left empty, the remaining fields are still
\* read and a one-element result is returned: the record is never aborted.
C10_FieldFailureKeepsRecord ==
    (last.op = "filelist" /\ last.calls # <<>> /\ last.calls[1].status = success)
    => (/\ ~terminated
        /\ Len(last.calls) = 4
        /\ Len(last.value) = 1
        /\ last.calls[2].status # success => last.value[1].file_name = <<>>
        /\ last.calls[3].status # success => last.value[1].extra_field = <<>>
        /\ last.calls[4].status # success => last.value[1].data = <<>>)

\* The bytes between the cursor and the end of the file of an open stream.
Rest(w) == SubSeq(w.d.data, w.f.pos + 1, Len(w.d.data))

\* The index of the first null terminator in bs, 0 when there is none.
FirstNull(bs) ==
    IF \E i \in DOMAIN bs : bs[i] = 0
    THEN CHOOSE i \in DOMAIN bs : bs[i] = 0 /\ \A j \in 1..(i - 1) : bs[j] # 0
    ELSE 0

\* C11: on an open, valid stream the null-terminated read<Text>(e) returns
\* exactly the code units before the first null terminator (the terminator is
\* not part of the text) and leaves the cursor just past the terminator; when
\* a unit read fails (no terminator before the end of the file) it returns
\* that failing Status.
C11_TextExcludesTerminator ==
    [][(last'.op = "read_text" /\ m_file.open /\ validate(World))
        => LET k == FirstNull(Rest(World))
           IN  /\ ~terminated'
               /\ k > 0 => /\ last'.status = success
                           /\ last'.value = SubSeq(Rest(World), 1, k - 1)
                           /\ m_file'.pos = m_file.pos + k
               /\ k = 0 => last'.status = out_of_range]_vars

\* C12: read<Aggregate>(e) that succeeds made one transfer of
\* sizeof(Aggregate) bytes and returns the bytes at the cursor with every
\* field byte-reversed on its own, in declaration order, when e is not the
\* native order, and unaltered when e is native.
C12_AggregateFieldsSwapped ==
    [][(last'.op = "read_struct" /\ ~terminated' /\ last'.status = success)
        => (/\ Len(last'.calls) = 1
            /\ last'.calls[1].count = last'.size
            /\ last'.value
                 = endian_swap_visitor(last'.e, Aggregates[last'.n],
                                       SubSeq(Rest(World), 1, last'.size)))]_vars

\* C13: for an arithmetic T and for an aggregate T, and every endianness e,
\* peek<T>(e) returns what read<T>(e) returns from the same cursor (here even
\* with sizeof(T) bytes ahead of the cursor), and does not move the cursor.
C13_PeekReturnsWhatReadReturns ==
    [][(last'.op \in {"peek", "peek_struct"} /\ m_file.open
            /\ Avail(World) >= last'.size)
        => LET r == IF last'.op = "peek"
                    THEN read(World, last'.size, last'.e)
                    ELSE read_struct(World, last'.size, last'.e)
           IN  /\ last'.status = r.status
               /\ last'.value = r.value
               /\ m_file'.pos = m_file.pos]_vars

\* C14: every write operation of the Serializer, write<T>(data, e) and the
\* string write(text), returns to its caller the Status its on_write call
\* produced.
C14_WriteReturnsBackendStatus ==
    [][(last'.op \in {"write", "write_text"} /\ last'.calls # <<>>)
        => last'.status = last'.calls[1].status]_vars

\* C16: validate() is true only between a successful initialize and the
\* matching quiesce: false on a freshly constructed backend, false after an
\* initialize that returned false, false after quiesce.
C16_ValidOnlyWhileInitialized == (~terminated /\ validate(World)) => live

\* C20: read<Text>(length, e) that succeeds returns exactly length units, the
\* bytes at [cursor, cursor + length) in file order whatever e is, and
\* advances the cursor by exactly length.
C20_BoundedTextAsStored ==
    [][(last'.op = "read_lenght" /\ ~terminated' /\ last'.status = success)
        => (/\ Len(last'.value) = last'.n
            /\ last'.value = SubSeq(Rest(World), 1, last'.n)
            /\ m_file'.pos = m_file.pos + last'.n
            /\ disk' = disk)]_vars

\* C20 witness: two different bytes were read as a text of length 2 with a
\* non-native endianness, from the middle of the file.
C20_Witness ==
    /\ last.op = "read_lenght" /\ last.n = 2 /\ last.e # Native
    /\ last.status = success
    /\ last.value[1] # last.value[2]
    /\ m_file.pos = 3

\* The lifecycle calls of one kind the extractor made on one stream.
Calls(stream, op) == {i \in DOMAIN log : log[i].stream = stream /\ log[i].op = op}

\* C15: when the extractor has returned, by any of its return statements, each
\* of its two streams (the archive's and the output fs) has had quiesce called
\* once if its initialize succeeded, and not at all if its initialize failed.
C15_QuiesceOncePerInitialize ==
    ret # -1
    => \A stream \in {"archive", "fs"} :
           Cardinality(Calls(stream, "quiesce"))
             = Cardinality({i \in Calls(stream, "initialize") : log[i].ret})

\* The value a local-file header at the front of data declares for a field.
Declared(data, name) == Field(SubSeq(data, 1, HeaderSize), name)

\* The n bytes of data after the first from bytes.
Range(data, from, n) == SubSeq(data, from + 1, from + n)

\* The bytes after the header, the name and the extra field its header declares.
AfterExtra(data) ==
    Len(data) - HeaderSize - Declared(data, "file_name_length")
        - Declared(data, "extra_field_length")

\* The file holds a well-formed local-file record: the 30-byte header, a name
\* of at least one byte, the extra field (possibly empty) and the payload.
WellFormed(d) ==
    /\ d.exists
    /\ Len(d.data) >= HeaderSize
    /\ Declared(d.data, "file_name_length") >= 1
    /\ AfterExtra(d.data) >= Declared(d.data, "compressed_size")

\* The LocalFile made of the byte ranges the header at the front of data declares.
RecordOf(data) ==
    LET nl == Declared(data, "file_name_length")
        el == Declared(data, "extra_field_length")
    IN  [header |-> SubSeq(data, 1, HeaderSize),
         file_name |-> Range(data, HeaderSize, nl),
         extra_field |-> Range(data, HeaderSize + nl, el),
         data |-> Range(data, HeaderSize + nl + el, Declared(data, "compressed_size"))]

\* C17: for an archive holding one well-formed local-file record, filelist
\* returns exactly one LocalFile whose file_name, extra_field and data are the
\* byte ranges the header declares, and the extractor runs to return 0 having
\* opened the output stream under file_name and stored exactly the payload
\* bytes in it (the path being one that can be opened).
C17_WellFormedRecordExtracted ==
    WellFormed(disk)
    => (/\ pc # "exited" /\ ~terminated
        /\ (pc \in {"loop", "fs_initialize", "fs_write", "fs_quiesce"}
                \/ (pc = "done" /\ ret # 1))
           => files = <<RecordOf(disk.data)>>
        /\ (pc = "done" /\ ret # 1)
           => (/\ ret = 0
               /\ Calls("fs", "initialize") # {}
               /\ \A i \in Calls("fs", "initialize") :
                      log[i].arg = RecordOf(disk.data).file_name
               /\ ~out.denied
                  => (out.exists /\ out.data = RecordOf(disk.data).data)))

\* C17 witness: the extractor returned 0 on an archive that is exactly one
\* record with a name, no extra field and a two-byte payload, and the output
\* file holds the payload.
C17_Witness ==
    /\ pc = "done" /\ ret = 0
    /\ WellFormed(disk)
    /\ Declared(disk.data, "extra_field_length") = 0
    /\ Declared(disk.data, "compressed_size") = 2
    /\ AfterExtra(disk.data) = 2
    /\ out.exists /\ Len(out.data) = 2
    /\ out.data = Range(disk.data, Len(disk.data) - 2, 2)

\* The header at the front of the file declares a compressed_size larger than
\* the number of bytes that follow the name and the extra field.
PayloadTruncated(d) ==
    /\ d.exists
    /\ Len(d.data) >= HeaderSize
    /\ AfterExtra(d.data) >= 0
    /\ Declared(d.data, "compressed_size") > AfterExtra(d.data)

C19_HeaderFailureEmptyList ==
    [][(last'.op = "filelist" /\ last'.calls # <<>>)
        => (/\ last'.calls[1] = Call("on_read", HeaderSize, last'.calls[1].status)
            /\ (last'.calls[1].status = success) = (Len(disk.data) >= HeaderSize)
            /\ last'.value # <<>>
               => last'.value[1].header = SubSeq(disk.data, 1, HeaderSize)
            /\ last'.calls[1].status # success
               => (/\ ~terminated'
                   /\ last'.value = <<>>
                   /\ Len(last'.calls) = 1))]_vars

\* C19 witness: filelist on a stream of 29 bytes returned an empty list after
\* the one failed header read.
C19_Witness ==
    /\ last.op = "filelist"
    /\ Len(disk.data) = HeaderSize - 1
    /\ Len(last.calls) = 1
    /\ last.calls[1].status = out_of_range
    /\ last.value = <<>>
    /\ ~terminated

\* The names of the fields of LocalFileHeader.
FieldNames == {HeaderFields[i][1] : i \in DOMAIN HeaderFields}

\* C21: a LocalFileHeader written with write<LocalFileHeader>(h, e), then a
\* seek back to the offset of the write, then read<LocalFileHeader>(e): the
\* read succeeds and returns a header equal to h field for field, for native
\* and non-native e.
C21_HeaderRoundTrip ==
    (last.op = "read_struct" /\ last.n = LocalFileHeader
        /\ last.ctx.k = "sought" /\ last.ctx.size = HeaderSize
        /\ last.e = last.ctx.e)
    => (/\ ~terminated
        /\ last.status = success
        /\ \A name \in FieldNames :
               Field(last.value, name) = Field(Headers[last.ctx.v], name))

\* C22: map_to_status_code maps each of the 17 known numeric codes 0..16 to
\* itself and every other value to Unknown; no input yields a value outside
\* the 17 known codes.
C22_MapToKnownCode ==
    last.op = "map_to_status_code"
    => LET value == last.value.args[1]
       IN  /\ value \in 0..16 => last.value.ret = value
           /\ value \notin 0..16 => last.value.ret = unknown
           /\ last.value.ret \in StatusCode

\* C22 witness: the first value past the enumerators was mapped to Unknown.
C22_Witness ==
    /\ last.op = "map_to_status_code"
    /\ last.value.args[1] = unauthenticated + 1
    /\ last.value.ret = unknown

\* C23: Status::success() is true exactly when the code is Success, and two
\* Status values compare equal exactly when their codes are equal, whatever
\* their messages.
C23_SuccessAndEquality ==
    /\ last.op = "success"
       => (last.value.ret = (last.value.args[1].code = success))
    /\ last.op = "operator=="
       => (last.value.ret = (last.value.args[1].code = last.value.args[2].code))

\* C23 witness: two Status values of the same code and different messages
\* compared equal.
C23_Witness ==
    /\ last.op = "operator=="
    /\ last.value.args[1].code = out_of_range
    /\ last.value.args[2].code = out_of_range
    /\ last.value.args[1].message # last.value.args[2].message
    /\ last.value.ret = TRUE

\* C24: endian_swap(e, data, data_lenght) leaves every byte unchanged when e
\* is the native order or the elements are one byte wide; otherwise it
\* reverses the bytes of each of the first data_lenght elements on its own
\* (and touches no element past them).
C24_EndianSwapPerElement ==
    last.op = "endian_swap"
    => LET e == last.value.args[1]
           data == last.value.args[2]
           n == last.value.args[3]
           swapped == last.value.ret
       IN  /\ DOMAIN swapped = DOMAIN data
           /\ (e = Native \/ Len(data[1]) = 1) => swapped = data
           /\ \A i \in DOMAIN data :
                  /\ Len(swapped[i]) = Len(data[i])
                  /\ (i <= n /\ e # Native)
                     => \A j \in DOMAIN data[i] :
                            swapped[i][j] = data[i][Len(data[i]) + 1 - j]
                  /\ i > n => swapped[i] = data[i]

\* C24 witness: two four-byte elements, the first of them 04 03 02 01, were
\* swapped for a non-native order.
C24_Witness ==
    /\ last.op = "endian_swap"
    /\ last.value.args[1] # Native
    /\ last.value.args[3] = 2
    /\ last.value.args[2][1] = <<4, 3, 2, 1>>
    /\ last.value.ret[1] = <<1, 2, 3, 4>>
    /\ last.value.ret[2] # last.value.args[2][2]

\* The powers of two an integer of Bits bits can hold.
PowersOf2 == {2 ^ k : k \in 0..(Bits - 1)}

\* C30: the integral is_power_of_2(value) is true exactly when value is a
\* power of two and false for every other value, 0 included; so round_up and
\* align_forward, whose precondition it is, end the process when given an
\* alignment of 0.
C30_PowerOfTwoRejectsZero ==
    /\ last.op = "is_power_of_2"
       => (last.value.ret <=> last.value.args[1] \in PowersOf2)
    /\ (last.op \in {"round_up", "align_forward"} /\ last.value.args[2] = 0)
       => terminated

\* The wire offsets of the eleven fields of a ZIP local-file header.
WireOffsets == <<0, 4, 6, 8, 10, 12, 14, 18, 22, 26, 28>>

\* C25: the encoded LocalFileHeader is exactly 30 bytes with no padding; its
\* fields lie at offsets 0, 4, 6, 8, 10, 12, 14, 18, 22, 26, 28 in declaration
\* order, each starting where the one before ends; and after a successful
\* read<LocalFileHeader> each field holds the bytes the stream had at that
\* field's wire offset from where the read began.
C25_HeaderLayout ==
    (last.op = "read_struct" /\ last.n = LocalFileHeader /\ ~terminated
        /\ last.status = success)
    => LET start == m_file.pos - 30
       IN  /\ Len(HeaderFields) = Len(WireOffsets)
           /\ \A i \in DOMAIN HeaderFields : OffsetOf(i) = WireOffsets[i]
           /\ \A i \in 1..(Len(HeaderFields) - 1) :
                  WireOffsets[i + 1] = WireOffsets[i] + HeaderFields[i][2]
           /\ WireOffsets[11] + HeaderFields[11][2] = 30
           /\ HeaderSize = 30
           /\ Len(last.value) = 30
           /\ start >= 0
           /\ \A i \in DOMAIN HeaderFields :
                  Field(last.value, HeaderFields[i][1])
                      = FromBytes(SubSeq(disk.data, start + WireOffsets[i] + 1,
                                         start + WireOffsets[i] + HeaderFields[i][2]))

\* C25 witness: the second header of the stream, stored at offset 30 in native
\* order, was read: crc32 came from offset 14 and file_name_length from
\* offset 26 of the header.
C25_Witness ==
    /\ last.op = "read_struct" /\ last.n = LocalFileHeader /\ ~terminated
    /\ last.status = success
    /\ m_file.pos = 60
    /\ SubSeq(disk.data, 31, 60) = Headers[2]
    /\ Field(last.value, "crc32") = 48879
    /\ Field(last.value, "file_name_length") = 2

\* C26: once validate() is false the stream stays invalid until initialize is
\* called again: no size, peek, seek, position, read, write (or any other
\* operation but initialize) makes validate() true again.
C26_InvalidUntilInitialize ==
    [][(~validate(World) /\ last'.op # "initialize") => ~validate(World)']_vars

\* C26 witness: size() was called on an open stream that a failed operation
\* had left invalid, and the stream is still invalid (size() on a valid open
\* stream leaves it valid).
C26_Witness ==
    /\ last.op = "size"
    /\ ~terminated
    /\ m_file.open
    /\ ~validate(World)

\* C27: size() on a valid stream over an open resource returns the total
\* number of bytes of the resource and leaves the cursor (and the resource)
\* as they were, for every cursor from 0 to the end; and position() right
\* after seek(p) returns p, for every p within the resource.
C27_SizeKeepsCursorSeekSetsIt ==
    [][/\ (last'.op = "size" /\ validate(World) /\ m_file.open
              /\ m_file.pos \in 0..Len(disk.data))
          => (/\ last'.value = Len(disk.data)
              /\ m_file' = m_file
              /\ disk' = disk)
       /\ (last.op = "seek" /\ last.n \in 0..Len(disk.data)
              /\ validate(World) /\ m_file.open /\ last'.op = "position")
          => (last'.value = last.n /\ m_file'.pos = last.n)]_vars

\* C27 witness: size() returned 2 for a two-byte resource with the cursor in
\* the middle, and the cursor is still there on a valid stream.
C27_Witness ==
    /\ last.op = "size"
    /\ ~terminated
    /\ validate(World) /\ m_file.open
    /\ Len(disk.data) = 2
    /\ m_file.pos = 1
    /\ last.value = 2

RECURSIVE SizeSum(_)
\* The sum of the sizes of the blocks bs.
SizeSum(bs) == IF bs = <<>> THEN 0 ELSE bs[1].size + SizeSum(Tail(bs))

\* C28: after any sequence of allocate and deallocate calls the statistics
\* agree with the tracked block list: block_count_current is the number of
\* tracked blocks, bytes_allocated_current is the sum of their sizes and is
\* bytes_allocated_total less bytes_deallocated_total; and a failed allocate
\* returns the dummy block and changes neither statistics nor block list.
C28_StatisticsAgreeWithBlocks ==
    /\ stats.block_count_current = Len(blocks)
    /\ stats.bytes_allocated_current = SizeSum(blocks)
    /\ stats.bytes_allocated_current
           = stats.bytes_allocated_total - stats.bytes_deallocated_total
    /\ (mem.op = "allocate" /\ ~mem.ok)
       => (/\ mem.result = dummy
           /\ blocks = mem.before.blocks
           /\ stats = mem.before.stats)

\* C28 witness: an allocate failed after one block had been released and
\* while another is still tracked.
C28_Witness ==
    /\ mem.op = "allocate" /\ ~mem.ok
    /\ Len(blocks) = 1
    /\ blocks[1].size = 1
    /\ stats.block_count_total = 2
    /\ stats.bytes_deallocated_total = 1

====
